---- MODULE Spec2Model ----
(***************************************************************************)
(* A model of src/arguments.cpp of async-profiler: Arguments::parse and    *)
(* its helpers (hash dispatch, addEvent, appendToEmbeddedList,             *)
(* expandFilePattern, detectOutputFormat, parseUnits) and the ownership    *)
(* operations on the backing buffer (~Arguments, Arguments::save).         *)
(*                                                                         *)
(* A C string is a tuple of one-character strings.  A char* is a record    *)
(* [k, buf, off, s]: k is "null", "const" (a string literal) or "buf" (a   *)
(* pointer into heap buffer buf at byte offset off); s is the text that    *)
(* was there when the pointer was taken.  A long is a record [hi, lo]      *)
(* standing for hi * 10^9 + lo, because 64-bit values do not fit the       *)
(* model checker's integers.                                               *)
(***************************************************************************)
EXTENDS Integers, Sequences, FiniteSets, TLC

VARIABLES recs, heap, last, hist, xp

vars == <<recs, heap, last, hist, xp>>

----------------------------------------------------------------------------
(* Characters *)

Lower == <<"a", "b", "c", "d", "e", "f", "g", "h", "i", "j", "k", "l", "m",
           "n", "o", "p", "q", "r", "s", "t", "u", "v", "w", "x", "y", "z">>

Upper == <<"A", "B", "C", "D", "E", "F", "G", "H", "I", "J", "K", "L", "M",
           "N", "O", "P", "Q", "R", "S", "T", "U", "V", "W", "X", "Y", "Z">>

Digits == <<"0", "1", "2", "3", "4", "5", "6", "7", "8", "9">>

Range(f) == {f[i] : i \in DOMAIN f}

Pos(seq, c) == CHOOSE i \in DOMAIN seq : seq[i] = c

\* The punctuation the inputs use, with its ASCII code.
Punct == [c \in {" ", "%", "+", ",", "-", ".", "/", "=", "@", "_"} |->
            CASE c = " " -> 32 [] c = "%" -> 37 [] c = "+" -> 43 [] c = "," -> 44
              [] c = "-" -> 45 [] c = "." -> 46 [] c = "/" -> 47 [] c = "=" -> 61
              [] c = "@" -> 64 [] c = "_" -> 95]

Alphabet == Range(Lower) \cup Range(Upper) \cup Range(Digits) \cup DOMAIN Punct

\* ASCII code of a character.
Code == [c \in Alphabet |->
            IF c \in Range(Lower) THEN 96 + Pos(Lower, c)
            ELSE IF c \in Range(Upper) THEN 64 + Pos(Upper, c)
            ELSE IF c \in Range(Digits) THEN 47 + Pos(Digits, c)
            ELSE Punct[c]]

Min(S) == CHOOSE x \in S : \A y \in S : x <= y

Max(S) == CHOOSE x \in S : \A y \in S : x >= y

\* strcmp(a, b) == 0
StrEq(a, b) == a = b

\* The text of s from 1-based index i to its end.
From(s, i) == IF i > Len(s) THEN <<>> ELSE SubSeq(s, i, Len(s))

----------------------------------------------------------------------------
(* Keyword hash: 5 bits per character, 12 lanes of a 64-bit integer *)

HashLanes == 12

\* (c & 31LL)
Low5(c) == Code[c] % 32

\* HASH(s): HASH12 of s followed by twelve spaces; lane i is the low 5 bits
\* of character i, and a space has low 5 bits 0.
HASH(s) == [i \in 1..HashLanes |->
              IF i <= Len(s) THEN Low5(s[i]) ELSE Low5(" ")]

\* Arguments::hash for an argument of at most 12 characters: every character
\* is OR-ed into its own lane (shift = 5 * index), the other lanes stay 0.
hash(arg) == [i \in 1..HashLanes |-> IF i <= Len(arg) THEN Low5(arg[i]) ELSE 0]

----------------------------------------------------------------------------
(* Tokenizer: strtok(_buf, ",") and strchr(arg, '=') *)

\* 1-based indexes where a token starts: a non-delimiter at the start of the
\* buffer or right after a delimiter (strtok skips runs of delimiters).
TokenStarts(s) == {i \in 1..Len(s) : s[i] # "," /\ (i = 1 \/ s[i-1] = ",")}

\* The last index of the token starting at i.
TokenEnd(s, i) == Min({j \in i..Len(s) : j = Len(s) \/ s[j+1] = ","})

\* strchr(arg, '='): the index of the first '=' of the token, 0 if none.
FirstEq(s, i, e) ==
    LET eqs == {j \in i..e : s[j] = "="} IN IF eqs = {} THEN 0 ELSE Min(eqs)

\* One token: key text, whether a value is present, the value's 0-based
\* byte offset in the buffer and the value text.  e is the token's last
\* index and q the index of its first '=' (0: none).
TokenAt(s, i, e, q) ==
    IF q = 0
    THEN [key |-> SubSeq(s, i, e), hasValue |-> FALSE, voff |-> 0, value |-> <<>>]
    ELSE [key |-> SubSeq(s, i, q - 1), hasValue |-> TRUE, voff |-> q,
          value |-> SubSeq(s, q + 1, e)]

TokenTo(s, i, e) == TokenAt(s, i, e, FirstEq(s, i, e))

Token(s, i) == TokenTo(s, i, TokenEnd(s, i))

\* The tokens of the buffer in order.
StrTok(s) ==
    LET starts == TokenStarts(s)
        nth(k) == CHOOSE i \in starts : Cardinality({j \in starts : j < i}) = k - 1
    IN  [k \in 1..Cardinality(starts) |-> Token(s, nth(k))]

----------------------------------------------------------------------------
(* Numeric conversions: atoi, strtol(str, &end, 0), parseUnits *)

Kilo == 1000
Mega == 1000000
Giga == 1000000000
INT_MAX == 2147483647

IsSpace(c) == c = " "

HexDigits == <<"0", "1", "2", "3", "4", "5", "6", "7", "8", "9",
               "a", "b", "c", "d", "e", "f">>

HexUpper == <<"0", "1", "2", "3", "4", "5", "6", "7", "8", "9",
              "A", "B", "C", "D", "E", "F">>

\* The value of c as a digit in base b, -1 if it is none.
DigitVal(c, b) ==
    LET v == IF c \in Range(HexDigits) THEN Pos(HexDigits, c) - 1
             ELSE IF c \in Range(HexUpper) THEN Pos(HexUpper, c) - 1
             ELSE -1
    IN  IF v >= 0 /\ v < b THEN v ELSE -1

\* Accumulates the digits of s from index i in base b; stops at the first
\* character that is no digit.  Returns the value and the stop index.
RECURSIVE ScanDigits(_, _, _, _)
ScanDigits(s, i, b, acc) ==
    IF i > Len(s) \/ DigitVal(s[i], b) < 0
    THEN [val |-> acc, stop |-> i]
    ELSE ScanDigits(s, i + 1, b, acc * b + DigitVal(s[i], b))

RECURSIVE SkipSpace(_, _)
SkipSpace(s, i) == IF i <= Len(s) /\ IsSpace(s[i]) THEN SkipSpace(s, i + 1) ELSE i

\* Whether a sign stands at index i, and the index after it.
IsNeg(s, i) == i <= Len(s) /\ s[i] = "-"

AfterSign(s, i) == IF i <= Len(s) /\ s[i] \in {"-", "+"} THEN i + 1 ELSE i

\* Whether a 0x/0X prefix with a hex digit after it stands at index i.
IsHex(s, i) ==
    /\ i + 2 <= Len(s)
    /\ s[i] = "0"
    /\ s[i + 1] \in {"x", "X"}
    /\ DigitVal(s[i + 2], 16) >= 0

\* The result of strtol once the digits from index i2 were scanned as d.
StrtolResult(neg, i2, d) ==
    IF d.stop = i2
    THEN [val |-> 0, stop |-> 1]
    ELSE [val |-> IF neg THEN 0 - d.val ELSE d.val, stop |-> d.stop]

StrtolDigits(s, neg, i1, hex) ==
    StrtolResult(neg, IF hex THEN i1 + 2 ELSE i1,
                 ScanDigits(s, IF hex THEN i1 + 2 ELSE i1,
                            IF hex THEN 16
                            ELSE IF i1 <= Len(s) /\ s[i1] = "0" THEN 8 ELSE 10, 0))

StrtolFrom(s, i0) ==
    StrtolDigits(s, IsNeg(s, i0), AfterSign(s, i0), IsHex(s, AfterSign(s, i0)))

\* strtol(str, &end, 0): white space, an optional sign, then a 0x/0X prefix
\* selects base 16, a leading 0 base 8, anything else base 10.  With no
\* digits the value is 0 and end is str.
strtol(s) == StrtolFrom(s, SkipSpace(s, 1))

AtoiFrom(s, i0) ==
    IF IsNeg(s, i0) THEN 0 - ScanDigits(s, AfterSign(s, i0), 10, 0).val
    ELSE ScanDigits(s, AfterSign(s, i0), 10, 0).val

\* atoi(value): base 10, stops at the first non-digit, 0 with no digits.
atoi(s) == AtoiFrom(s, SkipSpace(s, 1))

\* A long as hi * 10^9 + lo, hi and lo of the same sign.
Long(n) == IF n >= 0 THEN [hi |-> n \div Giga, lo |-> n % Giga]
           ELSE [hi |-> 0 - ((0 - n) \div Giga), lo |-> 0 - ((0 - n) % Giga)]

\* result * k for the three multipliers of parseUnits.
LongMul(n, k) == IF k = Giga THEN [hi |-> n, lo |-> 0] ELSE Long(n * k)

\* (long) <= 0
LongNonPos(v) == v.hi < 0 \/ (v.hi = 0 /\ v.lo <= 0)

\* The switch of parseUnits on *end (c; "NUL" at the end of the string).
Units(result, c) ==
    CASE c = "NUL" -> Long(result)
      [] c \in {"K", "k", "U", "u"} -> LongMul(result, Kilo)
      [] c \in {"M", "m"} -> LongMul(result, Mega)
      [] c \in {"G", "g", "S", "s"} -> LongMul(result, Giga)
      [] OTHER -> Long(-1)

UnitsAt(str, r) == Units(r.val, IF r.stop <= Len(str) THEN str[r.stop] ELSE "NUL")

\* Arguments::parseUnits
parseUnits(str) == UnitsAt(str, strtol(str))

----------------------------------------------------------------------------
(* String literals of the source, as character tuples *)

S_start == <<"s", "t", "a", "r", "t">>
S_resume == <<"r", "e", "s", "u", "m", "e">>
S_stop == <<"s", "t", "o", "p">>
S_check == <<"c", "h", "e", "c", "k">>
S_status == <<"s", "t", "a", "t", "u", "s">>
S_list == <<"l", "i", "s", "t">>
S_version == <<"v", "e", "r", "s", "i", "o", "n">>
S_collapsed == <<"c", "o", "l", "l", "a", "p", "s", "e", "d">>
S_folded == <<"f", "o", "l", "d", "e", "d">>
S_flamegraph == <<"f", "l", "a", "m", "e", "g", "r", "a", "p", "h">>
S_html == <<"h", "t", "m", "l">>
S_tree == <<"t", "r", "e", "e">>
S_jfr == <<"j", "f", "r">>
S_flat == <<"f", "l", "a", "t">>
S_event == <<"e", "v", "e", "n", "t">>
S_interval == <<"i", "n", "t", "e", "r", "v", "a", "l">>
S_jstackdepth == <<"j", "s", "t", "a", "c", "k", "d", "e", "p", "t", "h">>
S_safemode == <<"s", "a", "f", "e", "m", "o", "d", "e">>
S_file == <<"f", "i", "l", "e">>
S_filter == <<"f", "i", "l", "t", "e", "r">>
S_include == <<"i", "n", "c", "l", "u", "d", "e">>
S_exclude == <<"e", "x", "c", "l", "u", "d", "e">>
S_threads == <<"t", "h", "r", "e", "a", "d", "s">>
S_allkernel == <<"a", "l", "l", "k", "e", "r", "n", "e", "l">>
S_alluser == <<"a", "l", "l", "u", "s", "e", "r">>
S_cstack == <<"c", "s", "t", "a", "c", "k">>
S_simple == <<"s", "i", "m", "p", "l", "e">>
S_dot == <<"d", "o", "t">>
S_sig == <<"s", "i", "g">>
S_ann == <<"a", "n", "n">>
S_begin == <<"b", "e", "g", "i", "n">>
S_end == <<"e", "n", "d">>
S_title == <<"t", "i", "t", "l", "e">>
S_minwidth == <<"m", "i", "n", "w", "i", "d", "t", "h">>
S_reverse == <<"r", "e", "v", "e", "r", "s", "e">>
S_samples == <<"s", "a", "m", "p", "l", "e", "s">>
S_total == <<"t", "o", "t", "a", "l">>
S_alloc == <<"a", "l", "l", "o", "c">>
S_lock == <<"l", "o", "c", "k">>
S_cpu == <<"c", "p", "u">>
S_wall == <<"w", "a", "l", "l">>
S_dot_html == <<".", "h", "t", "m", "l">>
S_dot_jfr == <<".", "j", "f", "r">>
S_dot_collapsed == <<".", "c", "o", "l", "l", "a", "p", "s", "e", "d">>
S_dot_folded == <<".", "f", "o", "l", "d", "e", "d">>
S_FlameGraph == <<"F", "l", "a", "m", "e", " ", "G", "r", "a", "p", "h">>

\* EVENT_ALLOC and EVENT_LOCK, the names addEvent compares with.
EVENT_ALLOC == S_alloc
EVENT_LOCK == S_lock

----------------------------------------------------------------------------
(* Pointers and the configuration record *)

NULL == [k |-> "null", buf |-> 0, off |-> 0, s |-> <<>>]

\* A string literal.
Literal(s) == [k |-> "const", buf |-> 0, off |-> 0, s |-> s]

\* A pointer into buffer b at byte offset off, where text s stands.
Ptr(b, off, s) == [k |-> "buf", buf |-> b, off |-> off, s |-> s]

\* Extra buffer space for expanding file pattern
EXTRA_BUF_SIZE == 512

\* The record as the constructor leaves it: no buffer, not shared, every
\* option at its default.
FreshRecord ==
    [buf |-> 0, shared |-> FALSE,
     action |-> "ACTION_NONE", counter |-> "COUNTER_SAMPLES", ring |-> "RING_ANY",
     events |-> {}, event_desc |-> NULL, interval |-> Long(10 * Mega),
     jstackdepth |-> 2 * 1024, safe_mode |-> 0,
     file |-> NULL, filter |-> NULL, include |-> 0, exclude |-> 0,
     threads |-> FALSE, cstack |-> "CSTACK_DEFAULT", style |-> {},
     begin |-> NULL, end |-> NULL, title |-> Literal(S_FlameGraph),
     minwidth |-> [neg |-> FALSE, int |-> 0, frac |-> <<>>], reverse |-> FALSE,
     output |-> "OUTPUT_NONE", dump_flat |-> 0]

\* The fields that hold configuration (all but the buffer bookkeeping).
ConfigFields == DOMAIN FreshRecord \ {"buf", "shared"}

----------------------------------------------------------------------------
(* Dispatch: SWITCH (arg) { CASE(...) ... } *)

\* The CASE labels in source order, each with the keywords it accepts.
Cases == <<
    [h |-> "start", kw |-> {S_start}],
    [h |-> "resume", kw |-> {S_resume}],
    [h |-> "stop", kw |-> {S_stop}],
    [h |-> "check", kw |-> {S_check}],
    [h |-> "status", kw |-> {S_status}],
    [h |-> "list", kw |-> {S_list}],
    [h |-> "version", kw |-> {S_version}],
    [h |-> "collapsed", kw |-> {S_collapsed, S_folded}],
    [h |-> "flamegraph", kw |-> {S_flamegraph, S_html}],
    [h |-> "tree", kw |-> {S_tree}],
    [h |-> "jfr", kw |-> {S_jfr}],
    [h |-> "flat", kw |-> {S_flat}],
    [h |-> "event", kw |-> {S_event}],
    [h |-> "interval", kw |-> {S_interval}],
    [h |-> "jstackdepth", kw |-> {S_jstackdepth}],
    [h |-> "safemode", kw |-> {S_safemode}],
    [h |-> "file", kw |-> {S_file}],
    [h |-> "filter", kw |-> {S_filter}],
    [h |-> "include", kw |-> {S_include}],
    [h |-> "exclude", kw |-> {S_exclude}],
    [h |-> "threads", kw |-> {S_threads}],
    [h |-> "allkernel", kw |-> {S_allkernel}],
    [h |-> "alluser", kw |-> {S_alluser}],
    [h |-> "cstack", kw |-> {S_cstack}],
    [h |-> "simple", kw |-> {S_simple}],
    [h |-> "dot", kw |-> {S_dot}],
    [h |-> "sig", kw |-> {S_sig}],
    [h |-> "ann", kw |-> {S_ann}],
    [h |-> "begin", kw |-> {S_begin}],
    [h |-> "end", kw |-> {S_end}],
    [h |-> "title", kw |-> {S_title}],
    [h |-> "minwidth", kw |-> {S_minwidth}],
    [h |-> "reverse", kw |-> {S_reverse}] >>

\* The statically computed hashes of each CASE label.
CaseHashes == [i \in DOMAIN Cases |-> {HASH(k) : k \in Cases[i].kw}]

\* The branch of the if/else-if chain that arg's hash selects: the first
\* CASE whose constant equals it, "none" when no CASE does.
Dispatch(arg) ==
    LET h == hash(arg)
        m == {i \in DOMAIN Cases : h \in CaseHashes[i]}
    IN  IF m = {} THEN "none" ELSE Cases[Min(m)].h

----------------------------------------------------------------------------
(* Helpers of Arguments::parse *)

\* addEvent without the test for an event kind already chosen: a second
\* CPU-class event replaces the first.
addEvent_NoCheck(rec, event) ==
    IF StrEq(event.s, EVENT_ALLOC)
    THEN [ok |-> TRUE, rec |-> [rec EXCEPT !.events = @ \cup {"EK_ALLOC"}]]
    ELSE IF StrEq(event.s, EVENT_LOCK)
    THEN [ok |-> TRUE, rec |-> [rec EXCEPT !.events = @ \cup {"EK_LOCK"}]]
    ELSE [ok |-> TRUE,
          rec |-> [rec EXCEPT !.events = @ \cup {"EK_CPU"}, !.event_desc = event]]

\* bool Arguments::addEvent(const char* event); event is a pointer.
addEvent(rec, event) ==
    IF StrEq(event.s, EVENT_ALLOC)
    THEN [ok |-> TRUE, rec |-> [rec EXCEPT !.events = @ \cup {"EK_ALLOC"}]]
    ELSE IF StrEq(event.s, EVENT_LOCK)
    THEN [ok |-> TRUE, rec |-> [rec EXCEPT !.events = @ \cup {"EK_LOCK"}]]
    ELSE IF "EK_CPU" \in rec.events
    THEN [ok |-> FALSE, rec |-> rec]
    ELSE [ok |-> TRUE,
          rec |-> [rec EXCEPT !.events = @ \cup {"EK_CPU"}, !.event_desc = event]]

\* void Arguments::appendToEmbeddedList(int& list, char* value): the old
\* head is stored in the 4 bytes before the value (links: value offset ->
\* old head), and the value's offset becomes the head.
appendToEmbeddedList(list, voff, links) ==
    [list |-> voff,
     links |-> [o \in DOMAIN links \cup {voff} |-> IF o = voff THEN list ELSE links[o]]]

\* snprintf(ptr, n, ...) of text: the characters that fit in n - 1 bytes.
Fit(text, n) == IF Len(text) <= n - 1 THEN text ELSE SubSeq(text, 1, n - 1)

\* The number of characters from pattern[i] on that precede the next '%'.
PlainRun(pattern, i) ==
    Min({j \in i..(Len(pattern) + 1) : j = Len(pattern) + 1 \/ pattern[j] = "%"}) - i

\* The loop of Arguments::expandFilePattern.  i is the read position in
\* pattern, ptr the write position and end the limit (both relative to
\* dest), out the text written before the terminator, top the highest
\* byte written so far (-1: none).  A run of plain characters is copied in
\* one step: as many iterations of *ptr++ = c as ptr < end allows.
RECURSIVE ExpandLoop(_, _, _, _, _, _, _, _)
ExpandLoop(pattern, i, ptr, end, out, top, pid, ts) ==
    IF ~(ptr < end /\ i <= Len(pattern))
    THEN [s |-> out, ptr |-> ptr, top |-> Max({top, ptr})]
    ELSE IF pattern[i] = "%"
    THEN IF i + 1 > Len(pattern)
         THEN [s |-> out, ptr |-> ptr, top |-> Max({top, ptr})]
         ELSE IF pattern[i + 1] \in {"p", "t"}
         THEN LET text == IF pattern[i + 1] = "p" THEN pid ELSE ts
                  w    == Fit(text, end - ptr)
              IN  ExpandLoop(pattern, i + 2, ptr + Len(text), end, out \o w,
                             Max({top, ptr + Len(w)}), pid, ts)
         ELSE ExpandLoop(pattern, i + 2, ptr + 1, end,
                         Append(out, pattern[i + 1]), Max({top, ptr}), pid, ts)
    ELSE LET n == Min({PlainRun(pattern, i), end - ptr})
         IN  ExpandLoop(pattern, i + n, ptr + n, end,
                        out \o SubSeq(pattern, i, i + n - 1),
                        Max({top, ptr + n - 1}), pid, ts)

\* const char* Arguments::expandFilePattern(char* dest, size_t max_size,
\* const char* pattern): s is the string left at dest, ptr the final write
\* position and top the highest byte written, relative to dest.  pid is
\* getpid() in decimal and ts the formatted local time.
expandFilePattern(max_size, pattern, pid, ts) ==
    ExpandLoop(pattern, 1, 0, max_size - 1, <<>>, -1, pid, ts)

\* strrchr(file, '.'): the text from the last '.' on, <<>> if there is none.
Ext(file) ==
    LET dots == {i \in 1..Len(file) : file[i] = "."}
    IN  IF dots = {} THEN <<>> ELSE From(file, Max(dots))

\* Output Arguments::detectOutputFormat(const char* file)
detectOutputFormat(file) ==
    LET ext == Ext(file)
    IN  IF ext # <<>>
        THEN IF StrEq(ext, S_dot_html) THEN "OUTPUT_FLAMEGRAPH"
             ELSE IF StrEq(ext, S_dot_jfr) THEN "OUTPUT_JFR"
             ELSE IF StrEq(ext, S_dot_collapsed) \/ StrEq(ext, S_dot_folded)
             THEN "OUTPUT_COLLAPSED"
             ELSE "OUTPUT_FLAT"
        ELSE "OUTPUT_FLAT"

\* The fraction digits that follow the integer part scanned as d.
FracOf(s, d) ==
    IF d.stop <= Len(s) /\ s[d.stop] = "."
    THEN SubSeq(s, d.stop + 1, ScanDigits(s, d.stop + 1, 10, 0).stop - 1)
    ELSE <<>>

AtofDigits(s, neg, d) == [neg |-> neg, int |-> d.val, frac |-> FracOf(s, d)]

AtofFrom(s, i0) == AtofDigits(s, IsNeg(s, i0), ScanDigits(s, AfterSign(s, i0), 10, 0))

\* atof(value) for plain decimals: sign, integer digits, fraction digits.
atof(s) == AtofFrom(s, SkipSpace(s, 1))

\* value == NULL || strcmp(value, "samples") == 0 ? COUNTER_SAMPLES : COUNTER_TOTAL
CounterOf(tok) ==
    IF ~tok.hasValue \/ StrEq(tok.value, S_samples)
    THEN "COUNTER_SAMPLES" ELSE "COUNTER_TOTAL"

\* The classification of cstack's value by its first character.
CStackOf(value) ==
    IF value # <<>> /\ value[1] = "n" THEN "CSTACK_NO"
    ELSE IF value # <<>> /\ value[1] = "l" THEN "CSTACK_LBR"
    ELSE "CSTACK_FP"

----------------------------------------------------------------------------
(* The body of one CASE.  st is [rec, links, err]: the record, the links   *)
(* appendToEmbeddedList wrote into the buffer, and the error returned      *)
(* ("OK" while none).  b is the buffer the token lies in.                  *)

Set(st, f, x) == [st EXCEPT !.rec = [@ EXCEPT ![f] = x]]

Fail(st, msg) == [st EXCEPT !.err = msg]

\* if (!addEvent(value)) return Error("multiple incompatible events");
EventResult(st, a) ==
    IF ~a.ok THEN Fail(st, "multiple incompatible events") ELSE [st EXCEPT !.rec = a.rec]

\* ... (_interval = parseUnits(value)) <= 0, once _interval is assigned.
IntervalResult(s1) ==
    IF LongNonPos(s1.rec.interval) THEN Fail(s1, "Invalid interval") ELSE s1

\* ... (_jstackdepth = atoi(value)) <= 0, once _jstackdepth is assigned.
JStackDepthResult(s1) ==
    IF s1.rec.jstackdepth <= 0 THEN Fail(s1, "jstackdepth must be > 0") ELSE s1

\* The record and the buffer after appendToEmbeddedList(list f, value).
ListResult(st, f, a) == [Set(st, f, a.list) EXCEPT !.links = a.links]

Handle(h, st, tok, b) ==
    CASE h = "start" -> Set(st, "action", "ACTION_START")
      [] h = "resume" -> Set(st, "action", "ACTION_RESUME")
      [] h = "stop" -> Set(st, "action", "ACTION_STOP")
      [] h = "check" -> Set(st, "action", "ACTION_CHECK")
      [] h = "status" -> Set(st, "action", "ACTION_STATUS")
      [] h = "list" -> Set(st, "action", "ACTION_LIST")
      [] h = "version" ->
            Set(st, "action",
                IF ~tok.hasValue THEN "ACTION_VERSION" ELSE "ACTION_FULL_VERSION")
      [] h = "collapsed" ->
            Set(Set(st, "output", "OUTPUT_COLLAPSED"), "counter", CounterOf(tok))
      [] h = "flamegraph" ->
            Set(Set(st, "output", "OUTPUT_FLAMEGRAPH"), "counter", CounterOf(tok))
      [] h = "tree" ->
            Set(Set(st, "output", "OUTPUT_TREE"), "counter", CounterOf(tok))
      [] h = "jfr" -> Set(st, "output", "OUTPUT_JFR")
      [] h = "flat" ->
            Set(Set(st, "output", "OUTPUT_FLAT"), "dump_flat",
                IF ~tok.hasValue THEN INT_MAX ELSE atoi(tok.value))
      [] h = "event" ->
            IF ~tok.hasValue \/ tok.value = <<>>
            THEN Fail(st, "event must not be empty")
            ELSE EventResult(st, addEvent(st.rec, Ptr(b, tok.voff, tok.value)))
      [] h = "interval" ->
            IF ~tok.hasValue THEN Fail(st, "Invalid interval")
            ELSE IntervalResult(Set(st, "interval", parseUnits(tok.value)))
      [] h = "jstackdepth" ->
            IF ~tok.hasValue THEN Fail(st, "jstackdepth must be > 0")
            ELSE JStackDepthResult(Set(st, "jstackdepth", atoi(tok.value)))
      [] h = "safemode" ->
            Set(st, "safe_mode", IF ~tok.hasValue THEN INT_MAX ELSE atoi(tok.value))
      [] h = "file" ->
            IF ~tok.hasValue \/ tok.value = <<>>
            THEN Fail(st, "file must not be empty")
            ELSE Set(st, "file", Ptr(b, tok.voff, tok.value))
      [] h = "filter" ->
            Set(st, "filter",
                IF ~tok.hasValue THEN Literal(<<>>) ELSE Ptr(b, tok.voff, tok.value))
      [] h = "include" ->
            IF ~tok.hasValue THEN st
            ELSE ListResult(st, "include",
                            appendToEmbeddedList(st.rec.include, tok.voff, st.links))
      [] h = "exclude" ->
            IF ~tok.hasValue THEN st
            ELSE ListResult(st, "exclude",
                            appendToEmbeddedList(st.rec.exclude, tok.voff, st.links))
      [] h = "threads" -> Set(st, "threads", TRUE)
      [] h = "allkernel" -> Set(st, "ring", "RING_KERNEL")
      [] h = "alluser" -> Set(st, "ring", "RING_USER")
      [] h = "cstack" ->
            IF ~tok.hasValue THEN st ELSE Set(st, "cstack", CStackOf(tok.value))
      [] h = "simple" -> Set(st, "style", st.rec.style \cup {"STYLE_SIMPLE"})
      [] h = "dot" -> Set(st, "style", st.rec.style \cup {"STYLE_DOTTED"})
      [] h = "sig" -> Set(st, "style", st.rec.style \cup {"STYLE_SIGNATURES"})
      [] h = "ann" -> Set(st, "style", st.rec.style \cup {"STYLE_ANNOTATE"})
      [] h = "begin" ->
            Set(st, "begin", IF ~tok.hasValue THEN NULL ELSE Ptr(b, tok.voff, tok.value))
      [] h = "end" ->
            Set(st, "end", IF ~tok.hasValue THEN NULL ELSE Ptr(b, tok.voff, tok.value))
      [] h = "title" ->
            IF ~tok.hasValue THEN st ELSE Set(st, "title", Ptr(b, tok.voff, tok.value))
      [] h = "minwidth" ->
            IF ~tok.hasValue THEN st ELSE Set(st, "minwidth", atof(tok.value))
      [] h = "reverse" -> Set(st, "reverse", TRUE)
      [] OTHER -> st

\* The for loop over the tokens: a handler that fails returns at once.
RECURSIVE TokenLoop(_, _, _, _)
TokenLoop(toks, i, st, b) ==
    IF i > Len(toks) \/ st.err # "OK" THEN st
    ELSE TokenLoop(toks, i + 1, Handle(Dispatch(toks[i].key), st, toks[i], b), b)

----------------------------------------------------------------------------
(* Arguments::parse *)

\* What a read through pointer p yields.  A read of a released buffer
\* (dead) is undefined: it yields the old text or something else,
\* according to stale.
ReadStr(p, dead, stale) ==
    IF p.k = "buf" /\ p.buf \in dead /\ stale # "kept" THEN <<>> ELSE p.s

\* The record with _file pointing at the expansion x, and the highest byte
\* of the buffer written.
Expanded(rec, len, x) ==
    [rec |-> [rec EXCEPT !.file = Ptr(rec.buf, len + 1, x.s)], top |-> len + 1 + x.top]

\* if (_file != NULL && strchr(_file, '%') != NULL)
\*     _file = expandFilePattern(_buf + len + 1, EXTRA_BUF_SIZE - 1, _file);
\* text is what _file reads as.
ExpandFile(rec, len, text, pid, ts) ==
    IF rec.file.k # "null" /\ "%" \in Range(text)
    THEN Expanded(rec, len, expandFilePattern(EXTRA_BUF_SIZE - 1, text, pid, ts))
    ELSE [rec |-> rec, top |-> len]

\* if (_file != NULL && _output == OUTPUT_NONE) { ... }
InferOutput(rec, text) ==
    IF rec.file.k # "null" /\ rec.output = "OUTPUT_NONE"
    THEN [rec EXCEPT !.output = detectOutputFormat(text), !.dump_flat = 200]
    ELSE rec

\* The action inference without the test of _action: any output forces
\* ACTION_DUMP.
InferAction_Forced(rec) ==
    IF rec.output # "OUTPUT_NONE"
    THEN [rec EXCEPT !.action = "ACTION_DUMP"]
    ELSE rec

\* if (_output != OUTPUT_NONE && (_action == ACTION_NONE || _action == ACTION_STOP))
InferAction(rec) ==
    IF rec.output # "OUTPUT_NONE" /\ rec.action \in {"ACTION_NONE", "ACTION_STOP"}
    THEN [rec EXCEPT !.action = "ACTION_DUMP"]
    ELSE rec

\* The two inferences, after the expansion x.
Infer(x, dead, stale) ==
    [rec |-> InferAction(InferOutput(x.rec, ReadStr(x.rec.file, dead, stale))),
     top |-> x.top]

\* The statements after the token loop.
PostProcess(rec, len, dead, pid, ts, stale) ==
    Infer(ExpandFile(rec, len, ReadStr(rec.file, dead, stale), pid, ts), dead, stale)

\* What parse leaves when the loop ended without an error: p is the
\* post-processed record; a byte past the len + EXTRA_BUF_SIZE bytes of the
\* buffer may have been written.
Finished(links, len, p) ==
    [rec |-> p.rec, links |-> links, err |-> "OK",
     overrun |-> p.top > len + EXTRA_BUF_SIZE - 1]

\* parse after the token loop, which left st.
AfterLoop(st, len, dead, pid, ts, stale) ==
    IF st.err # "OK"
    THEN [rec |-> st.rec, links |-> st.links, err |-> st.err, overrun |-> FALSE]
    ELSE Finished(st.links, len, PostProcess(st.rec, len, dead, pid, ts, stale))

\* parse from strcpy on, into the new buffer b of len + EXTRA_BUF_SIZE
\* bytes: the record, the links written into b, the error returned and
\* whether a byte was written past the end of b.
ParseInto(rec, args, b, dead, pid, ts, stale) ==
    AfterLoop(TokenLoop(StrTok(args), 1,
                        [rec |-> [rec EXCEPT !.buf = b], links |-> <<>>, err |-> "OK"], b),
              Len(args), dead, pid, ts, stale)

----------------------------------------------------------------------------
(* The heap: buffer b is heap[b] = [state, frees, links] *)

\* free(p): nothing for NULL; otherwise the buffer is released (once more).
Free(h, b) ==
    IF b = 0 THEN h
    ELSE [h EXCEPT ![b] = [@ EXCEPT !.state = "freed", !.frees = @ + 1]]

\* The buffers that have been released.
Dead(h) == {b \in DOMAIN h : h[b].state = "freed"}

\* free(_buf) at the head of parse.
ParseFree(h, rec) == Free(h, rec.buf)

\* if (!_shared) free(_buf): the destructor and the head of save.
FreeUnlessShared(h, rec) == IF ~rec.shared THEN Free(h, rec.buf) ELSE h

\* *this = other; other._shared = true; as a function of the two records
\* (dst is overwritten whole, the _shared flag included).
SaveCopy(dst, src) == [this |-> src, other |-> [src EXCEPT !.shared = TRUE]]

----------------------------------------------------------------------------
(* Bounds and inputs *)

NumRecs == 3
MaxLifeRecs == 2
MaxBufs == 2
MaxParses == 2
MaxTokens == 3
MaxPatLen == 4
MaxCap == 6

RecIds == 1..NumRecs

\* The records the life-cycle specification operates on.
LifeRecs == 1..MaxLifeRecs

\* parse(NULL)
NullArgs == <<"NULL">>

\* getpid() in decimal, and the local time as %d%02d%02d-%02d%02d%02d.
Pids == {<<"7">>, <<"4", "2", "4", "2">>}
Timestamps == {<<"2", "0", "1", "7", "0", "1", "0", "1", "-", "0", "9", "3", "0", "0", "0">>}

SeqsUpTo(S, n) == UNION {[1..k -> S] : k \in 1..n}

RECURSIVE Join(_)
Join(q) == IF Len(q) = 1 THEN q[1] ELSE q[1] \o <<",">> \o Join(Tail(q))

KV(k, v) == k \o <<"=">> \o v

\* The argument strings of at most MaxTokens tokens drawn from T.
Inputs(T) == {Join(q) : q \in SeqsUpTo(T, MaxTokens)}

\* event tokens: alloc, lock, two CPU-class names, an empty and no value.
EventTokens ==
    {KV(S_event, S_alloc), KV(S_event, S_lock), KV(S_event, S_cpu),
     KV(S_event, S_wall), KV(S_event, <<>>), S_event}

T_file_jfr == <<"f", "i", "l", "e", "=", "o", "u", "t", ".", "j", "f", "r">>
T_file_html == <<"f", "i", "l", "e", "=", "o", ".", "h", "t", "m", "l">>
T_file_folded == <<"f", "i", "l", "e", "=", "%", "p", ".", "f", "o", "l", "d", "e", "d">>
T_file_txt == <<"f", "i", "l", "e", "=", "a", ".", "b", "/", "c">>
T_file_pct == <<"f", "i", "l", "e", "=", "o", ".", "j", "f", "r", "%">>
T_flat5 == <<"f", "l", "a", "t", "=", "5">>
T_collapsed_total == <<"c", "o", "l", "l", "a", "p", "s", "e", "d", "=", "t", "o", "t", "a", "l">>
T_version_full == <<"v", "e", "r", "s", "i", "o", "n", "=", "f", "u", "l", "l">>
T_START == <<"S", "T", "A", "R", "T">>
T_Jfr == <<"J", "f", "r">>
T_File_jfr == <<"F", "i", "l", "e", "=", "o", ".", "j", "f", "r">>
T_starts == <<"s", "t", "a", "r", "t", "s">>
T_star == <<"s", "t", "a", "r">>
T_foo == <<"f", "o", "o", "=", "1">>
T_jfr_at == <<"j", "f", "r", "@">>
T_event_sp == <<"e", "v", "e", "n", "t", " ", "=", "c", "p", "u">>
T_empty_key == <<"=", "s", "t", "o", "p">>
T_interval_0 == <<"i", "n", "t", "e", "r", "v", "a", "l", "=", "0">>
T_interval_10ms == <<"i", "n", "t", "e", "r", "v", "a", "l", "=", "1", "0", "m", "s">>
T_interval_5s == <<"i", "n", "t", "e", "r", "v", "a", "l", "=", "5", "s">>
T_interval_abc == <<"i", "n", "t", "e", "r", "v", "a", "l", "=", "a", "b", "c">>
T_interval_neg == <<"i", "n", "t", "e", "r", "v", "a", "l", "=", "-", "3", "u">>
T_interval_hex == <<"i", "n", "t", "e", "r", "v", "a", "l", "=", "0", "x", "1", "0", "k">>
T_interval_oct == <<"i", "n", "t", "e", "r", "v", "a", "l", "=", "0", "1", "0">>
T_interval_bad == <<"i", "n", "t", "e", "r", "v", "a", "l", "=", "7", "x">>
T_include_foo == <<"i", "n", "c", "l", "u", "d", "e", "=", "f", "o", "o">>
T_include_bar == <<"i", "n", "c", "l", "u", "d", "e", "=", "b", "a", "r">>
T_exclude_baz == <<"e", "x", "c", "l", "u", "d", "e", "=", "b", "a", "z">>
T_title == <<"t", "i", "t", "l", "e", "=", "T">>
T_filter_x == <<"f", "i", "l", "t", "e", "r", "=", "x">>
T_begin_f == <<"b", "e", "g", "i", "n", "=", "f">>
T_end_g == <<"e", "n", "d", "=", "g">>
T_jstack_0 == <<"j", "s", "t", "a", "c", "k", "d", "e", "p", "t", "h", "=", "0">>
T_jstack_9 == <<"j", "s", "t", "a", "c", "k", "d", "e", "p", "t", "h", "=", "9">>
T_minwidth == <<"m", "i", "n", "w", "i", "d", "t", "h", "=", "0", ".", "5">>
T_cstack_lbr == <<"c", "s", "t", "a", "c", "k", "=", "l", "b", "r">>
T_safemode == <<"s", "a", "f", "e", "m", "o", "d", "e", "=", "1", "2">>
T_file_empty == <<"f", "i", "l", "e", "=">>

\* Action keywords, output keywords and files.
FlowTokens ==
    {S_start, S_stop, S_check, S_jfr, T_flat5,
     T_file_jfr, T_file_html, T_file_folded}

\* Keys that are no keyword of the vocabulary, beside one that is.
KeyTokens ==
    {T_START, T_Jfr, T_File_jfr, T_starts, T_foo, T_jfr_at, T_file_html}

\* One token of every other handler.
OtherTokens ==
    {S_resume, S_status, S_list, S_version, S_folded, S_html, S_flamegraph, S_tree,
     S_flat, S_threads, S_allkernel, S_alluser, S_simple, S_dot, S_sig, S_ann,
     S_reverse, S_filter, S_begin, S_include, S_cstack, S_title, S_minwidth,
     S_safemode, S_interval, S_jstackdepth, S_file,
     T_interval_0, T_interval_10ms, T_interval_5s, T_interval_abc, T_interval_neg,
     T_interval_hex, T_interval_oct, T_interval_bad, T_include_foo, T_exclude_baz,
     T_title, T_filter_x, T_begin_f, T_end_g, T_jstack_0, T_jstack_9, T_minwidth,
     T_cstack_lbr, T_safemode, T_file_empty, T_version_full, T_file_txt, T_star,
     T_collapsed_total, T_file_pct, T_event_sp, T_empty_key}

\* The arguments a fresh record is parsed with.
FreshInputs ==
    Inputs(EventTokens) \cup Inputs(FlowTokens) \cup Inputs(KeyTokens)
      \cup OtherTokens \cup {NullArgs, <<>>, <<",">>}

\* The arguments of the record life-cycle specification.
LifeInputs ==
    {S_start, T_interval_0, T_file_jfr, Join(<<T_include_foo, T_include_bar>>)}

\* The arguments of the records that are saved.
SaveInputs == {T_file_jfr, Join(<<T_include_foo, T_include_bar>>)}

\* File patterns of at most MaxPatLen characters, and one that fills the
\* extra space of parse up to two bytes before %t.
Patterns ==
    {<<>>} \cup SeqsUpTo({"a", "%", "p", "t"}, MaxPatLen)
      \cup {[i \in 1..(EXTRA_BUF_SIZE - 3) |-> "a"] \o <<"%", "t">>}

\* The capacities expandFilePattern is given: small ones, and parse's.
Capacities == 1..MaxCap \cup {EXTRA_BUF_SIZE - 1}

----------------------------------------------------------------------------
(* State *)

\* last: the most recent operation (rec: its record, src: save's source,
\* fresh: the record was as constructed before it, err: what parse
\* returned, overrun: it wrote past the end of its buffer).
\* hist: which records were destroyed, how often each was parsed, whether a
\* save ran (saves), and per buffer the destination of the latest save that
\* copied it (dest); 0 is none.
\* xp: the latest call of expandFilePattern on its own.

Idle == [op |-> "none", rec |-> 0, src |-> 0, args |-> <<>>, err |-> "OK",
         fresh |-> FALSE, overrun |-> FALSE]

NoExpand == [done |-> FALSE, pattern |-> <<>>, max_size |-> 0, s |-> <<>>,
             ptr |-> 0, top |-> 0]

Init ==
    /\ recs = [r \in RecIds |-> FreshRecord]
    /\ heap = <<>>
    /\ last = Idle
    /\ hist = [destroyed |-> {}, parses |-> [r \in RecIds |-> 0], saves |-> 0,
               dest |-> <<>>]
    /\ xp = NoExpand

Alive(r) == r \notin hist.destroyed

\* The pointer-valued fields of a record.
StringFields == {"file", "filter", "begin", "end", "title", "event_desc"}

\* Whether the parse of args on rec reads getpid()/time(), and whether it
\* may read a released buffer: the choices that cannot matter are fixed.
PidChoices(args) == IF "%" \in Range(args) THEN Pids ELSE {<<"7">>}

StaleChoices(rec, dead) ==
    IF rec.file.k = "buf" /\ rec.file.buf \in dead THEN {"kept", "lost"} ELSE {"kept"}

----------------------------------------------------------------------------
(* Operations *)

\* The state parse leaves on record r when malloc returned a buffer: h1 is
\* the heap after free(_buf), p the result of the rest of parse.
Parsed(r, args, h1, p) ==
    /\ recs' = [recs EXCEPT ![r] = p.rec]
    /\ heap' = Append(h1, [state |-> "live", frees |-> 0, links |-> p.links])
    /\ last' = [Idle EXCEPT !.op = "parse", !.rec = r, !.args = args,
                            !.fresh = recs[r] = FreshRecord, !.err = p.err, !.overrun = p.overrun]

\* parse from free(_buf) on; h1 is the heap after it.
ParseAlloc(r, args, ok, h1) ==
    IF ~ok
    THEN /\ recs' = [recs EXCEPT ![r].buf = 0]
         /\ heap' = h1
         /\ last' = [Idle EXCEPT !.op = "parse", !.rec = r, !.args = args,
                                 !.fresh = recs[r] = FreshRecord,
                                 !.err = "Not enough memory to parse arguments"]
    ELSE \E pid \in PidChoices(args), ts \in Timestamps,
            stale \in StaleChoices(recs[r], Dead(h1)) :
            Parsed(r, args, h1,
                   ParseInto(recs[r], args, Len(heap) + 1, Dead(h1), pid, ts, stale))

\* Error Arguments::parse(const char* args) on record r.  ok: malloc
\* returns a buffer.
Parse(r, args, ok) ==
    /\ Alive(r)
    /\ hist' = [hist EXCEPT !.parses[r] = IF @ < MaxParses THEN @ + 1 ELSE @,
                            !.dest = IF args # NullArgs /\ ok THEN Append(@, 0) ELSE @]
    /\ xp' = xp
    /\ IF args = NullArgs
       THEN /\ UNCHANGED <<recs, heap>>
            /\ last' = [Idle EXCEPT !.op = "parse", !.rec = r, !.args = args,
                                    !.fresh = recs[r] = FreshRecord]
       ELSE ParseAlloc(r, args, ok, ParseFree(heap, recs[r]))

\* void Arguments::save(Arguments& other): d is this, s is other.
Save(d, s) ==
    /\ Alive(d) /\ Alive(s)
    /\ LET c == SaveCopy(recs[d], recs[s])
           b == recs[s].buf
       IN  /\ heap' = FreeUnlessShared(heap, recs[d])
           /\ recs' = IF d = s THEN [recs EXCEPT ![s] = c.other]
                      ELSE [recs EXCEPT ![d] = c.this, ![s] = c.other]
           /\ hist' = [hist EXCEPT
                         !.saves = 1,
                         !.dest = IF b = 0 THEN @ ELSE [@ EXCEPT ![b] = d]]
    /\ last' = [Idle EXCEPT !.op = "save", !.rec = d, !.src = s, !.fresh = recs[d] = FreshRecord]
    /\ xp' = xp

\* Arguments::~Arguments() on record r.
Destroy(r) ==
    /\ Alive(r)
    /\ heap' = FreeUnlessShared(heap, recs[r])
    /\ hist' = [hist EXCEPT !.destroyed = @ \cup {r}]
    /\ last' = [Idle EXCEPT !.op = "destroy", !.rec = r, !.fresh = recs[r] = FreshRecord]
    /\ UNCHANGED <<recs, xp>>

\* A call of expandFilePattern with a capacity and a pattern of its own.
Expand(max_size, pattern, pid, ts) ==
    /\ LET x == expandFilePattern(max_size, pattern, pid, ts)
       IN  xp' = [done |-> TRUE, pattern |-> pattern, max_size |-> max_size,
                  s |-> x.s, ptr |-> x.ptr, top |-> x.top]
    /\ UNCHANGED <<recs, heap, last, hist>>

----------------------------------------------------------------------------
(* Specifications *)

\* The life of MaxLifeRecs records: parse, save and destroy in any order, with
\* at most MaxBufs buffers allocated and MaxParses calls of parse a record.
ParseAny ==
    \E r \in LifeRecs, args \in LifeInputs, ok \in BOOLEAN :
        Len(heap) < MaxBufs /\ hist.parses[r] < MaxParses /\ Parse(r, args, ok)

\* save is called on a record with another record as its argument.
SaveLife == \E d \in LifeRecs : \E s \in LifeRecs \ {d} : Save(d, s)

DestroyAny == \E r \in LifeRecs : Destroy(r)

Next == ParseAny \/ SaveLife \/ DestroyAny

Spec == Init /\ [][Next]_vars

\* One parse of a fresh record.
ParseFresh ==
    \E args \in FreshInputs, ok \in BOOLEAN :
        hist.parses[1] = 0 /\ Parse(1, args, ok)

NextFresh == ParseFresh

SpecFresh == Init /\ [][NextFresh]_vars

\* Saves only: every record is parsed at most once, before the first save.
ParseFirst ==
    \E r \in RecIds, args \in SaveInputs, ok \in BOOLEAN :
        hist.saves = 0 /\ hist.parses[r] = 0 /\ Parse(r, args, ok)

SaveAny == \E d \in RecIds : \E s \in RecIds \ {d} : Save(d, s)

NextSave == ParseFirst \/ SaveAny

SpecSave == Init /\ [][NextSave]_vars

\* expandFilePattern as a function of its arguments.
ExpandAny ==
    \E m \in Capacities, pat \in Patterns, pid \in Pids, ts \in Timestamps :
        ~xp.done /\ Expand(m, pat, pid, ts)

NextExpand == ExpandAny

SpecExpand == Init /\ [][NextExpand]_vars

----------------------------------------------------------------------------
(* Properties *)

NoMemory == "Not enough memory to parse arguments"

\* The most recent operation was a parse of args # NULL into a record as
\* constructed, and malloc returned a buffer.
FreshParse == last.op = "parse" /\ last.fresh /\ last.args # NullArgs /\ last.err # NoMemory

\* The record the most recent operation worked on.
Rec == recs[last.rec]

\* The tokens of the most recent parse.
Toks == IF last.args = NullArgs THEN <<>> ELSE StrTok(last.args)

\* The keywords of the fixed vocabulary, compared character by character.
Vocabulary == UNION {Cases[i].kw : i \in DOMAIN Cases}

\* The handler a key names under case-sensitive comparison.
KeywordCase(key) ==
    IF key \in Vocabulary
    THEN Cases[CHOOSE i \in DOMAIN Cases : key \in Cases[i].kw].h
    ELSE "none"

ActionCases == {"start", "resume", "stop", "check", "status", "list", "version"}

OutputCases == {"collapsed", "flamegraph", "tree", "jfr", "flat"}

\* The positions of the tokens whose key is a keyword of the set K.
KeywordsAt(toks, K) == {i \in DOMAIN toks : KeywordCase(toks[i].key) \in K}

\* ---- C1 ----

IsEmptyEvent(t) == ~t.hasValue \/ t.value = <<>>

IsCpuClass(t) == t.value # S_alloc /\ t.value # S_lock

\* The event tokens the parse reaches before an event without a name ends it.
ReachedEvents(toks) ==
    SubSeq(toks, 1, Min({i \in DOMAIN toks : IsEmptyEvent(toks[i])} \cup {Len(toks) + 1}) - 1)

CpuClassEvents(toks) == SelectSeq(ReachedEvents(toks), IsCpuClass)

\* The input is a sequence of event tokens.
EventsOnly(toks) == toks # <<>> /\ \A i \in DOMAIN toks : toks[i].key = S_event

EventsAsClaimed(toks, cpu, rec, err) ==
    /\ (err = "multiple incompatible events") <=> (Len(cpu) >= 2)
    /\ (Len(cpu) <= 1 /\ \A i \in DOMAIN toks : ~IsEmptyEvent(toks[i])) => err = "OK"
    /\ err = "OK" =>
          /\ ("EK_ALLOC" \in rec.events) <=> (\E i \in DOMAIN toks : toks[i].value = S_alloc)
          /\ ("EK_LOCK" \in rec.events) <=> (\E i \in DOMAIN toks : toks[i].value = S_lock)
          /\ ("EK_CPU" \in rec.events) <=> (rec.event_desc # NULL)
          /\ ("EK_CPU" \in rec.events) <=> (Len(cpu) = 1)
          /\ Len(cpu) = 1 => rec.event_desc.s = cpu[1].value

\* C1: for a sequence of event=V tokens parsed into a fresh record, alloc
\* and lock set their own bit and never make the parse fail; the parse
\* fails with "multiple incompatible events" exactly when a second value
\* other than alloc/lock is reached; after a successful parse the Cpu bit
\* is set iff event_description is set, and it names the single CPU-class
\* event.
C1_Events ==
    (FreshParse /\ EventsOnly(Toks)) =>
        EventsAsClaimed(Toks, CpuClassEvents(Toks), Rec, last.err)

\* event=cpu,event=alloc,event=lock succeeded with the three bits set.
C1_Witness ==
    /\ FreshParse /\ last.err = "OK"
    /\ last.args = Join(<<KV(S_event, S_cpu), KV(S_event, S_alloc), KV(S_event, S_lock)>>)
    /\ Rec.events = {"EK_CPU", "EK_ALLOC", "EK_LOCK"}
    /\ Rec.event_desc.s = S_cpu

\* ---- C2 ----

\* The action an action keyword sets.
ActionSetBy(t) ==
    CASE t.key = S_start -> "ACTION_START"
      [] t.key = S_resume -> "ACTION_RESUME"
      [] t.key = S_stop -> "ACTION_STOP"
      [] t.key = S_check -> "ACTION_CHECK"
      [] t.key = S_status -> "ACTION_STATUS"
      [] t.key = S_list -> "ACTION_LIST"
      [] t.key = S_version ->
            IF t.hasValue THEN "ACTION_FULL_VERSION" ELSE "ACTION_VERSION"

\* The action the tokens leave: that of the last action keyword.
LastAction(toks, at) == IF at = {} THEN "ACTION_NONE" ELSE ActionSetBy(toks[Max(at)])

ActionAsClaimed(rec, left) ==
    rec.action = IF rec.output # "OUTPUT_NONE" /\ left \in {"ACTION_NONE", "ACTION_STOP"}
                 THEN "ACTION_DUMP"
                 ELSE left

\* C2: on every successful parse of a fresh record the final action is
\* Dump precisely when the final output is not None and the action left by
\* the tokens is None or Stop; otherwise it is the action of the last
\* action keyword in the input.
C2_Action ==
    (FreshParse /\ last.err = "OK") =>
        ActionAsClaimed(Rec, LastAction(Toks, KeywordsAt(Toks, ActionCases)))

\* ---- C3 ----

StartFileJfr == Join(<<S_start, T_file_jfr>>)

\* C3 as stated: start,file=out.jfr parsed into a fresh record yields
\* action = Dump.
C3_Original ==
    (FreshParse /\ last.err = "OK" /\ last.args = StartFileJfr) =>
        Rec.action = "ACTION_DUMP"

\* C3 as amended: start,file=out.jfr parsed into a fresh record succeeds
\* with action = Start; the output format Jfr inferred from the file does
\* not replace an action other than None or Stop.
C3_StartKept ==
    (FreshParse /\ last.args = StartFileJfr) =>
        /\ last.err = "OK"
        /\ Rec.action = "ACTION_START"
        /\ Rec.output = "OUTPUT_JFR"

\* start,file=out.jfr was parsed: the output is inferred, the action kept.
C3_Witness ==
    /\ FreshParse /\ last.args = StartFileJfr
    /\ Rec.output = "OUTPUT_JFR" /\ Rec.dump_flat = 200
    /\ Rec.action = "ACTION_START"

\* ---- C4 ----

ConfigUnchanged(rec) == \A f \in ConfigFields : rec[f] = FreshRecord[f]

\* C4: when no key of the input is, under case-sensitive comparison, a
\* keyword of the vocabulary, the parse of a fresh record succeeds and no
\* configuration field changes.
C4_UnknownIgnored ==
    (FreshParse /\ \A i \in DOMAIN Toks : Toks[i].key \notin Vocabulary) =>
        (last.err = "OK" /\ ConfigUnchanged(Rec))

\* ---- C5 ----

\* C5: whenever a parse returns success, the record's interval is > 0.
C5_IntervalPositive ==
    (last.op = "parse" /\ last.err = "OK") => ~LongNonPos(Rec.interval)

\* ---- C6 ----

EndsWith(s, suffix) ==
    Len(s) >= Len(suffix) /\ SubSeq(s, Len(s) - Len(suffix) + 1, Len(s)) = suffix

\* The format of a file name's extension.
FormatOfExtension(name) ==
    IF EndsWith(name, S_dot_html) THEN "OUTPUT_FLAMEGRAPH"
    ELSE IF EndsWith(name, S_dot_jfr) THEN "OUTPUT_JFR"
    ELSE IF EndsWith(name, S_dot_collapsed) \/ EndsWith(name, S_dot_folded)
    THEN "OUTPUT_COLLAPSED"
    ELSE "OUTPUT_FLAT"

\* The output an output-format keyword sets.
OutputSetBy(t) ==
    CASE t.key \in {S_collapsed, S_folded} -> "OUTPUT_COLLAPSED"
      [] t.key \in {S_flamegraph, S_html} -> "OUTPUT_FLAMEGRAPH"
      [] t.key = S_tree -> "OUTPUT_TREE"
      [] t.key = S_jfr -> "OUTPUT_JFR"
      [] t.key = S_flat -> "OUTPUT_FLAT"

\* The flat-profile limit the keywords set: that of the last flat keyword.
FlatLimit(toks, at) ==
    IF at = {} THEN FreshRecord.dump_flat
    ELSE IF toks[Max(at)].hasValue THEN atoi(toks[Max(at)].value) ELSE INT_MAX

OutputAsClaimed(rec, toks, at) ==
    IF at = {}
    THEN rec.output = FormatOfExtension(rec.file.s) /\ rec.dump_flat = 200
    ELSE /\ rec.output = OutputSetBy(toks[Max(at)])
         /\ rec.dump_flat = FlatLimit(toks, KeywordsAt(toks, {"flat"}))

\* C6: after a successful parse of a fresh record in which file is set,
\* output is the format of the file's extension and the flat-profile limit
\* is 200 when no output-format keyword occurs in the input; when one
\* occurs, both are what the keywords set.
C6_Output ==
    (FreshParse /\ last.err = "OK" /\ KeywordsAt(Toks, {"file"}) # {} /\ Rec.file # NULL) =>
        OutputAsClaimed(Rec, Toks, KeywordsAt(Toks, OutputCases))

\* ---- C7 ----

\* The records responsible for releasing buffer b.
Responsible(b) == {r \in RecIds : Alive(r) /\ recs[r].buf = b /\ ~recs[r].shared}

\* C7: after any sequence of saves every buffer has exactly one record
\* responsible for releasing it, the destination of the most recent save
\* that copied the buffer.
C7_LatestDestination ==
    \A b \in DOMAIN heap :
        heap[b].state = "live" =>
            /\ Cardinality(Responsible(b)) = 1
            /\ hist.dest[b] # 0 => Responsible(b) = {hist.dest[b]}

\* ---- C8 ----

\* C8: no buffer is released twice, and no record is responsible for a
\* buffer that has been released.
C8_ReleasedOnce ==
    \A b \in DOMAIN heap :
        /\ heap[b].frees <= 1
        /\ heap[b].state = "freed" => Responsible(b) = {}

\* ---- C9 ----

\* C9: expandFilePattern writes only the max_size bytes it was given,
\* the terminator included.
C9_WithinCapacity == xp.done => (xp.top <= xp.max_size - 1)

\* ---- C10 ----

RECURSIVE ListWithin(_, _, _)
\* The list that starts at offset o ends within n entries of links.
ListWithin(links, o, n) ==
    IF o = 0 THEN TRUE
    ELSE IF n = 0 \/ o \notin DOMAIN links THEN FALSE
    ELSE ListWithin(links, links[o], n - 1)

ViewsAsClaimed(rec, h) ==
    /\ \A f \in StringFields : rec[f].k = "buf" => (rec[f].buf = rec.buf /\ rec.buf \notin Dead(h))
    /\ \A f \in {"include", "exclude"} :
          rec[f] # 0 => (rec.buf # 0 /\ ListWithin(h[rec.buf].links, rec[f],
                                                    Cardinality(DOMAIN h[rec.buf].links)))

\* C10: after every successful parse each string field that is present
\* and each entry reachable from the include/exclude heads refers to the
\* buffer that parse allocated, or to a constant.
C10_ViewsCurrent ==
    (last.op = "parse" /\ last.err = "OK" /\ last.args # NullArgs) =>
        ViewsAsClaimed(Rec, heap)

====
